---- MODULE Spec2Model ----
(***************************************************************************)
(* Multi-source property resolution of chemicals.dipole and                *)
(* chemicals.safety: lazily loaded tables, per-property source registries, *)
(* the lookup functions and their *_methods queries.  Spec is a caller     *)
(* making one call after another; ThreadSpec is two threads making their   *)
(* first call at the same time, statement by statement.                    *)
(*                                                                         *)
(* A Python float is modelled as an exact rational <<numerator,            *)
(* denominator>>; a table cell holds an integer or NaN; a module namespace *)
(* maps a global's name to Bound(value) or Unbound.                        *)
(***************************************************************************)
EXTENDS Integers, Sequences, FiniteSets, TLC

(***************************************************************************)
(* Bounds of the model.                                                    *)
(***************************************************************************)
\* table cells hold the numbers 0..MaxValue (0 is the falsy number)
MaxValue == 1
\* heats of combustion range over -MaxHc..0 MJ/mol
MaxHc == 1
\* atom counts range over 0..MaxAtom
MaxAtom == 1
\* the runs of a module's loading routine are counted up to MaxLoads
MaxLoads == 2
\* the threads that make a first call concurrently
MaxThreads == 2

(***************************************************************************)
(* Method names.                                                           *)
(***************************************************************************)
CCCBDB == "CCCBDB"
MULLER == "MULLER"
POLING == "POLING"
dipole_methods == <<CCCBDB, MULLER, POLING>>

IEC == "IEC 60079-20-1 (2010)"
NFPA == "NFPA 497 (2008)"
SERAT == "Serat DIPPR (2017)"
SUZUKI == "Suzuki (1994)"
CROWLLOUVAR == "Crowl and Louvar (2001)"

ONTARIO == "Ontario Limits"
TWA_all_methods == <<ONTARIO>>
STEL_all_methods == <<ONTARIO>>
Ceiling_all_methods == <<ONTARIO>>
Skin_all_methods == <<ONTARIO>>

IARC == "International Agency for Research on Cancer"
NTP == "National Toxicology Program 13th Report on Carcinogens"
UNLISTED == "Unlisted"
Carcinogen_all_methods == <<IARC, NTP>>

T_flash_all_methods == <<IEC, NFPA, SERAT>>
T_autoignition_all_methods == <<IEC, NFPA>>
LFL_all_methods == <<IEC, NFPA, SUZUKI, CROWLLOUVAR>>
UFL_all_methods == <<IEC, NFPA, SUZUKI, CROWLLOUVAR>>

NTP_codes == (1 :> "Known") @@ (2 :> "Reasonably Anticipated")
IARC_codes == (1 :> "Carcinogenic to humans (1)")
              @@ (11 :> "Probably carcinogenic to humans (2A)")
              @@ (12 :> "Possibly carcinogenic to humans (2B)")
              @@ (3 :> "Not classifiable as to its carcinogenicity to humans (3)")
              @@ (4 :> "Probably not carcinogenic to humans (4)")

(***************************************************************************)
(* Python values and call outcomes.                                        *)
(***************************************************************************)
\* the method argument left out (Python None)
MethodNone == "<None>"
\* Python truthiness of a method argument: None and '' are falsy
MethodGiven(method) == method \notin {MethodNone, ""}

Float(n, d) == <<n, d>>
FloatTruthy(f) == f[1] # 0

PyNone == [kind |-> "None"]
Return(v) == [kind |-> "value", val |-> v]
Raise(e) == [kind |-> "raise", exc |-> e, allowed |-> <<>>]
InvalidMethod(allowed) == [kind |-> "raise", exc |-> "InvalidMethod", allowed |-> allowed]

IsNone(o) == o.kind = "None"
IsValue(o) == o.kind = "value"
IsRaise(o) == o.kind = "raise"
IsInvalidMethod(o) == o.kind = "raise" /\ o.exc = "InvalidMethod"
SameOutcome(a, b) ==
    /\ a.kind = b.kind
    /\ a.kind = "value" => a.val = b.val
    /\ a.kind = "raise" => a.exc = b.exc /\ a.allowed = b.allowed

\* an optional heat of combustion: None, or h MJ/mol (Hc = h * 1E6 J/mol)
HcNone == [given |-> FALSE, mj |-> 0]
HcOf(h) == [given |-> TRUE, mj |-> h]
HcInputs == {HcNone} \cup {HcOf(h) : h \in (0 - MaxHc)..0}

\* an optional dict of atom counts; a count of KeyAbsent is a missing key
KeyAbsent == -1
AtomsNone == [given |-> FALSE, C |-> KeyAbsent, H |-> KeyAbsent, O |-> KeyAbsent]
AtomsOf(c, h, o) == [given |-> TRUE, C |-> c, H |-> h, O |-> o]
AtomsInputs ==
    {AtomsNone, AtomsOf(KeyAbsent, KeyAbsent, KeyAbsent), AtomsOf(0, MaxAtom, KeyAbsent),
     AtomsOf(KeyAbsent, MaxAtom, MaxAtom)}
    \cup {AtomsOf(c, h, o) : c \in 1..MaxAtom, h \in {KeyAbsent, MaxAtom},
                             o \in {KeyAbsent, MaxAtom}}
AtomsLen(atoms) == Cardinality({k \in {"C", "H", "O"} : atoms[k] # KeyAbsent})

(***************************************************************************)
(* The bundled data.  An identifier names, by construction, what each file *)
(* of its family holds for it, so that every combination of missing rows,  *)
(* null fields, zeros and non-zero values occurs for some identifier:      *)
(*   <<"dipole", ccdb, muller, poling>>, <<"fire", iec, nfpa, serat>>,     *)
(*   <<"ontario", ppm, mgm3, skin>>, <<"carc", iarc, ntp, 0>>.             *)
(***************************************************************************)
NoRow == -2
NaN == -1
Cell == {NaN} \cup 0..MaxValue
RowOpt == {NoRow} \cup Cell

DipoleIds == {<<"dipole", a, b, c>> : a \in RowOpt, b \in RowOpt, c \in RowOpt}
FireIds == {<<"fire", a, b, c>> : a \in RowOpt, b \in RowOpt, c \in RowOpt}
OntarioIds == {<<"ontario", p, m, s>> : p \in Cell, m \in Cell, s \in {0, 1}}
CarcIds == {<<"carc", a, b, 0>> : a \in {NoRow} \cup DOMAIN IARC_codes,
                                  b \in {NoRow} \cup DOMAIN NTP_codes}
\* the default CASRN='' of LFL and UFL, held by no table
EmptyId == <<"", 0, 0, 0>>

Column(ids, pos, cols) ==
    [i \in {j \in ids : j[pos] # NoRow} |-> [c \in cols |-> i[pos]]]

\* what register_df_source has registered: file name -> the table it holds
df_sources ==
    ("cccbdb.nist.gov Dipoles.csv" :> Column(DipoleIds, 2, {"Dipole"}))
    @@ ("Muller Supporting Info Dipoles.csv" :> Column(DipoleIds, 3, {"Dipole"}))
    @@ ("Poling Dipole.csv" :> Column(DipoleIds, 4, {"Dipole"}))
    @@ ("IS IEC 60079-20-1 2010.tsv" :>
            Column(FireIds, 2, {"T_flash", "T_autoignition", "LFL", "UFL"}))
    @@ ("NFPA 497 2008.tsv" :>
            Column(FireIds, 3, {"T_flash", "T_autoignition", "LFL", "UFL"}))
    @@ ("DIPPR T_flash Serat.csv" :> Column(FireIds, 4, {"T_flash"}))
    @@ ("IARC Carcinogen Database.tsv" :> Column(CarcIds, 2, {"group"}))
    @@ ("National Toxicology Program Carcinogens.tsv" :> Column(CarcIds, 3, {"Listing"}))

data_source(name) == df_sources[name]

\* json.load of 'Ontario Exposure Limits.json'; a JSON null is NaN here
OntarioJson ==
    [i \in OntarioIds |->
        [c \in {"TWA (ppm)", "STEL (ppm)", "Ceiling (ppm)"} |-> i[2]]
        @@ [c \in {"TWA (mg/m^3)", "STEL (mg/m^3)", "Ceiling (mg/m^3)"} |-> i[3]]
        @@ ("Skin" :> i[4])]

(***************************************************************************)
(* chemicals.data_reader: the three registry helpers.  A registry (a dict  *)
(* of source name -> table) is a sequence of [name, df] in insertion order.*)
(***************************************************************************)
Range(seq) == {seq[k] : k \in 1..Len(seq)}
Source(name, df) == [name |-> name, df |-> df]
Keys(df_dict) == [k \in 1..Len(df_dict) |-> df_dict[k].name]
HasKey(df_dict, method) == \E k \in 1..Len(df_dict) : df_dict[k].name = method
Lookup(df_dict, method) ==
    df_dict[CHOOSE k \in 1..Len(df_dict) : df_dict[k].name = method].df

has_field(df, index, key) == index \in DOMAIN df /\ df[index][key] # NaN
get_field(df, index, key) ==
    IF has_field(df, index, key) THEN Return(Float(df[index][key], 1)) ELSE PyNone

RECURSIVE list_from(_, _, _, _)
list_from(df_dict, index, key, k) ==
    IF k > Len(df_dict) THEN <<>>
    ELSE (IF has_field(df_dict[k].df, index, key) THEN <<df_dict[k].name>> ELSE <<>>)
         \o list_from(df_dict, index, key, k + 1)
list_available_methods_from_df_dict(df_dict, index, key) ==
    list_from(df_dict, index, key, 1)

RECURSIVE any_from(_, _, _, _)
any_from(df_dict, index, key, k) ==
    IF k > Len(df_dict) THEN PyNone
    ELSE IF has_field(df_dict[k].df, index, key)
         THEN get_field(df_dict[k].df, index, key)
         ELSE any_from(df_dict, index, key, k + 1)
retrieve_any_from_df_dict(df_dict, index, key) == any_from(df_dict, index, key, 1)

retrieve_from_df_dict(df_dict, index, key, method) ==
    IF ~HasKey(df_dict, method) THEN InvalidMethod(Keys(df_dict))
    ELSE get_field(Lookup(df_dict, method), index, key)

(***************************************************************************)
(* Module namespaces.                                                      *)
(***************************************************************************)
Unbound == [bound |-> FALSE, v |-> <<>>]
Bound(x) == [bound |-> TRUE, v |-> x]
\* a registry global holds its tables by reference: [name, df] with df the
\* name of the global whose table it is; Registry follows the references
Registry(g, sources) ==
    [k \in 1..Len(g[sources].v) |->
        Source(g[sources].v[k].name, g[g[sources].v[k].df].v)]

DipoleNames == {"dipole_data_CCDB", "dipole_data_Muller", "dipole_data_Poling",
                "dipole_sources"}
SafetyNames == {"Ontario_exposure_limits_dict", "NFPA_2008_data", "IEC_2010_data",
                "DIPPR_SERAT_data", "NTP_data", "IARC_data", "Tflash_sources",
                "Tautoignition_sources", "LFL_sources", "UFL_sources"}

\* dipole_data_loaded  dipole._dipole_data_loaded
\* dipole_globals      the lazily assigned globals of chemicals.dipole
\* dipole_loads        how often _load_dipole_data has been entered
\* safety_data_loaded  safety._safety_data_loaded
\* safety_globals      the lazily assigned globals of chemicals.safety
\* safety_loads        how often _load_safety_data has been entered
\* pc                  "idle", or "returned" when a call has just completed
\* call                the call that has just completed
\* outcome             what that call returned or raised
\* threads             the position of each thread inside its first call
VARIABLES dipole_data_loaded, dipole_globals, dipole_loads, safety_data_loaded, safety_globals, safety_loads, pc, call, outcome, threads

vars == <<dipole_data_loaded, dipole_globals, dipole_loads, safety_data_loaded,
          safety_globals, safety_loads, pc, call, outcome, threads>>

\* the state of a module as a function sees it: its flag and its namespace,
\* with the number of times its loading routine has been entered
Env(loaded, g, loads) == [loaded |-> loaded, g |-> g, loads |-> loads]
DipoleEnv == Env(dipole_data_loaded, dipole_globals, dipole_loads)
SafetyEnv == Env(safety_data_loaded, safety_globals, safety_loads)
\* one more run of a loading routine
Entered(loads) == IF loads < MaxLoads THEN loads + 1 ELSE loads
\* what a function hands back: the module state it leaves and its outcome
Done(E, out) == [env |-> E, out |-> out]

(***************************************************************************)
(* chemicals.dipole                                                        *)
(***************************************************************************)
\* the flag is not declared global in the loader and is never assigned
load_dipole_data(E) ==
    LET ccdb == data_source("cccbdb.nist.gov Dipoles.csv")
        muller == data_source("Muller Supporting Info Dipoles.csv")
        poling == data_source("Poling Dipole.csv")
    IN Env(E.loaded,
           ("dipole_data_CCDB" :> Bound(ccdb))
           @@ ("dipole_data_Muller" :> Bound(muller))
           @@ ("dipole_data_Poling" :> Bound(poling))
           @@ ("dipole_sources" :> Bound(<<Source(CCCBDB, "dipole_data_CCDB"),
                                           Source(MULLER, "dipole_data_Muller"),
                                           Source(POLING, "dipole_data_Poling")>>)),
           Entered(E.loads))

\* the assignments of _load_dipole_data, in statement order
load_dipole_data_steps ==
    <<"dipole_data_CCDB", "dipole_data_Muller", "dipole_data_Poling", "dipole_sources">>

\* variant: a method name is looked up before get_methods is considered
dipole_moment_method_first(E0, CASRN, get_methods, method) ==
    LET E == IF ~E0.loaded THEN load_dipole_data(E0) ELSE E0
    IN IF ~E.g["dipole_sources"].bound THEN Done(E, Raise("NameError"))
       ELSE IF MethodGiven(method)
       THEN Done(E, retrieve_from_df_dict(Registry(E.g, "dipole_sources"), CASRN,
                                          "Dipole", method))
       ELSE IF get_methods
       THEN Done(E, Return(list_available_methods_from_df_dict(
                               Registry(E.g, "dipole_sources"), CASRN, "Dipole")))
       ELSE Done(E, retrieve_any_from_df_dict(Registry(E.g, "dipole_sources"), CASRN,
                                              "Dipole"))

dipole_moment(E0, CASRN, get_methods, method) ==
    LET E == IF ~E0.loaded THEN load_dipole_data(E0) ELSE E0
    IN IF ~E.g["dipole_sources"].bound THEN Done(E, Raise("NameError"))
       ELSE IF get_methods
       THEN Done(E, Return(list_available_methods_from_df_dict(
                               Registry(E.g, "dipole_sources"), CASRN, "Dipole")))
       ELSE IF MethodGiven(method)
       THEN Done(E, retrieve_from_df_dict(Registry(E.g, "dipole_sources"), CASRN,
                                          "Dipole", method))
       ELSE Done(E, retrieve_any_from_df_dict(Registry(E.g, "dipole_sources"), CASRN,
                                              "Dipole"))

(***************************************************************************)
(* chemicals.safety: loading                                               *)
(***************************************************************************)
\* variant: the registries list NFPA ahead of IEC
load_safety_data_nfpa_first(E) ==
    LET Tautoignition_sources == <<Source(NFPA, "NFPA_2008_data"),
                                   Source(IEC, "IEC_2010_data")>>
    IN Env(TRUE,
           ("Ontario_exposure_limits_dict" :> Bound(OntarioJson))
           @@ ("NFPA_2008_data" :> Bound(data_source("NFPA 497 2008.tsv")))
           @@ ("IEC_2010_data" :> Bound(data_source("IS IEC 60079-20-1 2010.tsv")))
           @@ ("DIPPR_SERAT_data" :> Bound(data_source("DIPPR T_flash Serat.csv")))
           @@ ("NTP_data" :>
                  Bound(data_source("National Toxicology Program Carcinogens.tsv")))
           @@ ("IARC_data" :> Bound(data_source("IARC Carcinogen Database.tsv")))
           @@ ("Tflash_sources" :> Bound(<<Source(NFPA, "NFPA_2008_data"),
                                           Source(IEC, "IEC_2010_data"),
                                           Source(SERAT, "DIPPR_SERAT_data")>>))
           @@ ("Tautoignition_sources" :> Bound(Tautoignition_sources))
           @@ ("LFL_sources" :> Bound(Tautoignition_sources))
           @@ ("UFL_sources" :> Bound(Tautoignition_sources)),
           Entered(E.loads))

load_safety_data(E) ==
    LET NFPA_2008_data == data_source("NFPA 497 2008.tsv")
        IEC_2010_data == data_source("IS IEC 60079-20-1 2010.tsv")
        DIPPR_SERAT_data == data_source("DIPPR T_flash Serat.csv")
        NTP_data == data_source("National Toxicology Program Carcinogens.tsv")
        IARC_data == data_source("IARC Carcinogen Database.tsv")
        Tautoignition_sources == <<Source(IEC, "IEC_2010_data"),
                                   Source(NFPA, "NFPA_2008_data")>>
    IN Env(TRUE,
           ("Ontario_exposure_limits_dict" :> Bound(OntarioJson))
           @@ ("NFPA_2008_data" :> Bound(NFPA_2008_data))
           @@ ("IEC_2010_data" :> Bound(IEC_2010_data))
           @@ ("DIPPR_SERAT_data" :> Bound(DIPPR_SERAT_data))
           @@ ("NTP_data" :> Bound(NTP_data))
           @@ ("IARC_data" :> Bound(IARC_data))
           @@ ("Tflash_sources" :> Bound(<<Source(IEC, "IEC_2010_data"),
                                           Source(NFPA, "NFPA_2008_data"),
                                           Source(SERAT, "DIPPR_SERAT_data")>>))
           @@ ("Tautoignition_sources" :> Bound(Tautoignition_sources))
           @@ ("LFL_sources" :> Bound(Tautoignition_sources))
           @@ ("UFL_sources" :> Bound(Tautoignition_sources)),
           Entered(E.loads))

\* variant: the flag is raised before the tables are read
load_safety_data_steps_flag_first ==
    <<"_safety_data_loaded", "Ontario_exposure_limits_dict", "NFPA_2008_data",
      "IEC_2010_data", "DIPPR_SERAT_data", "NTP_data", "IARC_data", "Tflash_sources",
      "Tautoignition_sources", "LFL_sources", "UFL_sources">>

\* the assignments of _load_safety_data, in statement order
load_safety_data_steps ==
    <<"Ontario_exposure_limits_dict", "NFPA_2008_data", "IEC_2010_data",
      "DIPPR_SERAT_data", "NTP_data", "IARC_data", "Tflash_sources",
      "Tautoignition_sources", "LFL_sources", "UFL_sources", "_safety_data_loaded">>

\* the guard that opens a function: if not _safety_data_loaded: _load_safety_data()
EnsureSafety(E) == IF ~E.loaded THEN load_safety_data(E) ELSE E

\* the lazily loaded table names that chemicals.safety lists in __all__
ExportedTables == {"NFPA_2008_data", "IEC_2010_data", "Ontario_exposure_limits_dict",
                   "NTP_data", "IARC_data", "DIPPR_SERAT_data"}

\* chemicals.safety.__getattr__ (Python 3.7 or later): the interpreter calls it
\* for a name that the module's globals do not hold; it does not test the flag
__getattr__(E, name) ==
    IF name \in {"Ontario_exposure_limits_dict", "NFPA_2008_data", "IEC_2010_data",
                 "DIPPR_SERAT_data"}
    THEN LET L == load_safety_data(E) IN Done(L, Return(L.g[name].v))
    ELSE Done(E, Raise("AttributeError"))

\* the attribute reference chemicals.safety.<name>: the module's globals are
\* searched first and __getattr__ serves the names they do not hold
ModuleAttribute(E, name) ==
    IF E.g[name].bound THEN Done(E, Return(E.g[name].v)) ELSE __getattr__(E, name)

\* Python truthiness of a JSON number or null
JsonTruthy(x) == x # NaN /\ x # 0

RECURSIVE ListOfSet(_)
ListOfSet(S) ==
    IF S = {} THEN <<>>
    ELSE LET x == CHOOSE y \in S : TRUE IN <<x>> \o ListOfSet(S \ {x})

(***************************************************************************)
(* chemicals.safety: exposure limits                                       *)
(***************************************************************************)
\* variant: the source is listed for every identifier the dictionary holds
TWA_methods_any_row(E0, CASRN) ==
    LET E == EnsureSafety(E0)
        dict == E.g["Ontario_exposure_limits_dict"].v
    IN IF CASRN \in DOMAIN dict
       THEN Done(E, Return(<<ONTARIO>>))
       ELSE Done(E, Return(<<>>))

TWA_methods(E0, CASRN) ==
    LET E == EnsureSafety(E0)
        dict == E.g["Ontario_exposure_limits_dict"].v
    IN IF CASRN \in DOMAIN dict
          /\ (JsonTruthy(dict[CASRN]["TWA (ppm)"])
              \/ JsonTruthy(dict[CASRN]["TWA (mg/m^3)"]))
       THEN Done(E, Return(<<ONTARIO>>))
       ELSE Done(E, Return(<<>>))

\* variant: an unrecognised method falls through and returns None
TWA_unchecked(E0, CASRN, method) ==
    LET E == EnsureSafety(E0)
        dict == E.g["Ontario_exposure_limits_dict"].v
    IN IF CASRN \in DOMAIN dict /\ (~MethodGiven(method) \/ method = ONTARIO)
       THEN IF JsonTruthy(dict[CASRN]["TWA (ppm)"])
            THEN Done(E, Return(<<Float(dict[CASRN]["TWA (ppm)"], 1), "ppm">>))
            ELSE IF JsonTruthy(dict[CASRN]["TWA (mg/m^3)"])
            THEN Done(E, Return(<<Float(dict[CASRN]["TWA (mg/m^3)"], 1), "mg/m^3">>))
            ELSE Done(E, PyNone)
       ELSE Done(E, PyNone)

TWA(E0, CASRN, method) ==
    LET E == EnsureSafety(E0)
        dict == E.g["Ontario_exposure_limits_dict"].v
    IN IF ~MethodGiven(method) \/ method = ONTARIO
       THEN IF CASRN \in DOMAIN dict
            THEN IF JsonTruthy(dict[CASRN]["TWA (ppm)"])
                 THEN Done(E, Return(<<Float(dict[CASRN]["TWA (ppm)"], 1), "ppm">>))
                 ELSE IF JsonTruthy(dict[CASRN]["TWA (mg/m^3)"])
                 THEN Done(E, Return(<<Float(dict[CASRN]["TWA (mg/m^3)"], 1), "mg/m^3">>))
                 ELSE Done(E, PyNone)
            ELSE Done(E, PyNone)
       ELSE Done(E, InvalidMethod(TWA_all_methods))

STEL_methods(E0, CASRN) ==
    LET E == EnsureSafety(E0)
        dict == E.g["Ontario_exposure_limits_dict"].v
    IN IF CASRN \in DOMAIN dict
          /\ (JsonTruthy(dict[CASRN]["STEL (ppm)"])
              \/ JsonTruthy(dict[CASRN]["STEL (mg/m^3)"]))
       THEN Done(E, Return(<<ONTARIO>>))
       ELSE Done(E, Return(<<>>))

STEL(E0, CASRN, method) ==
    LET E == EnsureSafety(E0)
        dict == E.g["Ontario_exposure_limits_dict"].v
    IN IF ~MethodGiven(method) \/ method = ONTARIO
       THEN IF CASRN \in DOMAIN dict
            THEN IF JsonTruthy(dict[CASRN]["STEL (ppm)"])
                 THEN Done(E, Return(<<Float(dict[CASRN]["STEL (ppm)"], 1), "ppm">>))
                 ELSE IF JsonTruthy(dict[CASRN]["STEL (mg/m^3)"])
                 THEN Done(E, Return(<<Float(dict[CASRN]["STEL (mg/m^3)"], 1), "mg/m^3">>))
                 ELSE Done(E, PyNone)
            ELSE Done(E, PyNone)
       ELSE Done(E, InvalidMethod(TWA_all_methods))

Ceiling_methods(E0, CASRN) ==
    LET E == EnsureSafety(E0)
        dict == E.g["Ontario_exposure_limits_dict"].v
    IN IF CASRN \in DOMAIN dict
          /\ (JsonTruthy(dict[CASRN]["Ceiling (ppm)"])
              \/ JsonTruthy(dict[CASRN]["Ceiling (mg/m^3)"]))
       THEN Done(E, Return(<<ONTARIO>>))
       ELSE Done(E, Return(<<>>))

Ceiling(E0, CASRN, method) ==
    LET E == EnsureSafety(E0)
        dict == E.g["Ontario_exposure_limits_dict"].v
    IN IF ~MethodGiven(method) \/ method = ONTARIO
       THEN IF CASRN \in DOMAIN dict
            THEN IF JsonTruthy(dict[CASRN]["Ceiling (ppm)"])
                 THEN Done(E, Return(<<Float(dict[CASRN]["Ceiling (ppm)"], 1), "ppm">>))
                 ELSE IF JsonTruthy(dict[CASRN]["Ceiling (mg/m^3)"])
                 THEN Done(E, Return(<<Float(dict[CASRN]["Ceiling (mg/m^3)"], 1), "mg/m^3">>))
                 ELSE Done(E, PyNone)
            ELSE Done(E, PyNone)
       ELSE Done(E, InvalidMethod(ListOfSet(DOMAIN dict)))

\* no loading guard: the dictionary is read as the namespace holds it
Skin_methods(E, CASRN) ==
    LET dict == E.g["Ontario_exposure_limits_dict"]
    IN IF ~dict.bound THEN Done(E, Raise("NameError"))
       ELSE IF CASRN \in DOMAIN dict.v
       THEN Done(E, Return(<<ONTARIO>>))
       ELSE Done(E, Return(<<>>))

\* variant: a substance the dictionary does not hold is reported as not absorbed
Skin_unlisted_is_False(E0, CASRN, method) ==
    LET E == EnsureSafety(E0)
        dict == E.g["Ontario_exposure_limits_dict"].v
    IN IF ~MethodGiven(method) \/ method = ONTARIO
       THEN IF CASRN \in DOMAIN dict
            THEN Done(E, Return(dict[CASRN]["Skin"] = 1))
            ELSE Done(E, Return(FALSE))
       ELSE Done(E, InvalidMethod(TWA_all_methods))

Skin(E0, CASRN, method) ==
    LET E == EnsureSafety(E0)
        dict == E.g["Ontario_exposure_limits_dict"].v
    IN IF ~MethodGiven(method) \/ method = ONTARIO
       THEN IF CASRN \in DOMAIN dict
            THEN Done(E, Return(dict[CASRN]["Skin"] = 1))
            ELSE Done(E, PyNone)
       ELSE Done(E, InvalidMethod(TWA_all_methods))

(***************************************************************************)
(* chemicals.safety: carcinogen listings.  Every group and listing code in *)
(* the bundled files is a key of IARC_codes and NTP_codes.                 *)
(***************************************************************************)
Carcinogen_methods(E, CASRN) == Done(E, Return(Carcinogen_all_methods))

\* variant: a named source that does not list the identifier yields None
Carcinogen_unlisted_is_None(E0, CASRN, method) ==
    LET E == EnsureSafety(E0)
        IARC_data == E.g["IARC_data"].v
        NTP_data == E.g["NTP_data"].v
        iarc == IF CASRN \in DOMAIN IARC_data
                THEN IARC_codes[IARC_data[CASRN]["group"]] ELSE UNLISTED
        ntp == IF CASRN \in DOMAIN NTP_data
               THEN NTP_codes[NTP_data[CASRN]["Listing"]] ELSE UNLISTED
    IN IF ~MethodGiven(method) THEN Done(E, Return((IARC :> iarc) @@ (NTP :> ntp)))
       ELSE IF method = IARC
       THEN Done(E, IF CASRN \in DOMAIN IARC_data THEN Return(iarc) ELSE PyNone)
       ELSE IF method = NTP
       THEN Done(E, IF CASRN \in DOMAIN NTP_data THEN Return(ntp) ELSE PyNone)
       ELSE Done(E, InvalidMethod(Carcinogen_all_methods))

Carcinogen(E0, CASRN, method) ==
    LET E == EnsureSafety(E0)
        IARC_data == E.g["IARC_data"].v
        NTP_data == E.g["NTP_data"].v
        iarc == IF CASRN \in DOMAIN IARC_data
                THEN IARC_codes[IARC_data[CASRN]["group"]] ELSE UNLISTED
        ntp == IF CASRN \in DOMAIN NTP_data
               THEN NTP_codes[NTP_data[CASRN]["Listing"]] ELSE UNLISTED
    IN IF ~MethodGiven(method) THEN Done(E, Return((IARC :> iarc) @@ (NTP :> ntp)))
       ELSE IF method = IARC THEN Done(E, Return(iarc))
       ELSE IF method = NTP THEN Done(E, Return(ntp))
       ELSE Done(E, InvalidMethod(Carcinogen_all_methods))

(***************************************************************************)
(* chemicals.safety: flash point and autoignition temperature              *)
(***************************************************************************)
T_flash_methods(E0, CASRN) ==
    LET E == EnsureSafety(E0)
    IN Done(E, Return(list_available_methods_from_df_dict(
                          Registry(E.g, "Tflash_sources"), CASRN, "T_flash")))

\* variant: the automatic lookup walks the autoignition registry
T_flash_wrong_registry(E0, CASRN, method) ==
    LET E == EnsureSafety(E0)
    IN IF MethodGiven(method)
       THEN Done(E, retrieve_from_df_dict(Registry(E.g, "Tflash_sources"), CASRN,
                                          "T_flash", method))
       ELSE Done(E, retrieve_any_from_df_dict(Registry(E.g, "Tautoignition_sources"),
                                              CASRN, "T_flash"))

T_flash(E0, CASRN, method) ==
    LET E == EnsureSafety(E0)
    IN IF MethodGiven(method)
       THEN Done(E, retrieve_from_df_dict(Registry(E.g, "Tflash_sources"), CASRN, "T_flash", method))
       ELSE Done(E, retrieve_any_from_df_dict(Registry(E.g, "Tflash_sources"), CASRN, "T_flash"))

T_autoignition_methods(E0, CASRN) ==
    LET E == EnsureSafety(E0)
    IN Done(E, Return(list_available_methods_from_df_dict(
                          Registry(E.g, "Tautoignition_sources"), CASRN, "T_autoignition")))

\* variant: only None counts as an omitted method, '' is looked up as a name
T_autoignition_is_not_None(E0, CASRN, method) ==
    LET E == EnsureSafety(E0)
    IN IF method # MethodNone
       THEN Done(E, retrieve_from_df_dict(Registry(E.g, "Tautoignition_sources"), CASRN,
                                          "T_autoignition", method))
       ELSE Done(E, retrieve_any_from_df_dict(Registry(E.g, "Tautoignition_sources"), CASRN,
                                              "T_autoignition"))

T_autoignition(E0, CASRN, method) ==
    LET E == EnsureSafety(E0)
    IN IF MethodGiven(method)
       THEN Done(E, retrieve_from_df_dict(Registry(E.g, "Tautoignition_sources"), CASRN,
                                          "T_autoignition", method))
       ELSE Done(E, retrieve_any_from_df_dict(Registry(E.g, "Tautoignition_sources"), CASRN,
                                              "T_autoignition"))

(***************************************************************************)
(* chemicals.safety: the estimators.  With h = Hc/1E6:                     *)
(*   Suzuki_LFL = (-3.42/h + 0.569 h + 0.0538 h^2 + 1.80)/100              *)
(*   Suzuki_UFL = (6.3 h + 0.567 h^2 + 23.5)/100                           *)
(*   Crowl_Louvar_LFL = 0.55/(4.76 nC + 1.19 nH - 2.38 nO + 1)             *)
(*   Crowl_Louvar_UFL = 3.5/(4.76 nC + 1.19 nH - 2.38 nO + 1)              *)
(***************************************************************************)
Suzuki_LFL(Hc) ==
    IF ~Hc.given THEN Raise("TypeError")
    ELSE IF Hc.mj = 0 THEN Raise("ZeroDivisionError")
    ELSE LET h == Hc.mj
         IN Return(Float(538*h*h*h + 5690*h*h + 18000*h - 34200, 1000000*h))

Suzuki_UFL(Hc) ==
    IF ~Hc.given THEN Raise("TypeError")
    ELSE LET h == Hc.mj IN Return(Float(567*h*h + 6300*h + 23500, 100000))

Crowl_Louvar_LFL(atoms) ==
    IF ~atoms.given THEN Raise("TypeError")
    ELSE IF atoms.C # KeyAbsent /\ atoms.C # 0
    THEN LET nC == atoms.C
             nH == IF atoms.H # KeyAbsent THEN atoms.H ELSE 0
             nO == IF atoms.O # KeyAbsent THEN atoms.O ELSE 0
         IN Return(Float(55, 476*nC + 119*nH - 238*nO + 100))
    ELSE PyNone

Crowl_Louvar_UFL(atoms) ==
    IF ~atoms.given THEN Raise("TypeError")
    ELSE IF atoms.C # KeyAbsent /\ atoms.C # 0
    THEN LET nC == atoms.C
             nH == IF atoms.H # KeyAbsent THEN atoms.H ELSE 0
             nO == IF atoms.O # KeyAbsent THEN atoms.O ELSE 0
         IN Return(Float(350, 476*nC + 119*nH - 238*nO + 100))
    ELSE PyNone

(***************************************************************************)
(* chemicals.safety: flammability limits                                   *)
(***************************************************************************)
\* Python truthiness: `not x` of a lookup result, `if Hc`, `if atoms`
Falsy(o) == IsNone(o) \/ (IsValue(o) /\ ~FloatTruthy(o.val))
HcTruthy(Hc) == Hc.given /\ Hc.mj # 0
AtomsTruthy(atoms) == atoms.given /\ AtomsLen(atoms) > 0

\* variant: the estimators are listed on the truthiness of Hc and atoms
LFL_methods_truthy(E0, Hc, atoms, CASRN) ==
    LET E == EnsureSafety(E0)
        methods == list_available_methods_from_df_dict(Registry(E.g, "LFL_sources"),
                                                       CASRN, "LFL")
    IN Done(E, Return(methods \o (IF HcTruthy(Hc) THEN <<SUZUKI>> ELSE <<>>)
                              \o (IF AtomsTruthy(atoms) THEN <<CROWLLOUVAR>> ELSE <<>>)))

\* variant: the sources without data for CASRN are dropped from the registry itself
LFL_methods_prunes_registry(E0, Hc, atoms, CASRN) ==
    LET E == EnsureSafety(E0)
        methods == list_available_methods_from_df_dict(Registry(E.g, "LFL_sources"),
                                                       CASRN, "LFL")
        pruned == SelectSeq(E.g["LFL_sources"].v, LAMBDA src : src.name \in Range(methods))
    IN Done(Env(E.loaded, [E.g EXCEPT !["LFL_sources"] = Bound(pruned)], E.loads),
            Return(methods \o (IF Hc.given THEN <<SUZUKI>> ELSE <<>>)
                           \o (IF atoms.given THEN <<CROWLLOUVAR>> ELSE <<>>)))

LFL_methods(E0, Hc, atoms, CASRN) ==
    LET E == EnsureSafety(E0)
        methods == list_available_methods_from_df_dict(Registry(E.g, "LFL_sources"), CASRN, "LFL")
    IN Done(E, Return(methods \o (IF Hc.given THEN <<SUZUKI>> ELSE <<>>)
                              \o (IF atoms.given THEN <<CROWLLOUVAR>> ELSE <<>>)))

\* variant: the fallback tests Hc and atoms against None, as UFL does
LFL_is_not_None(E0, Hc, atoms, CASRN, method) ==
    LET E == EnsureSafety(E0)
        tabulated == retrieve_any_from_df_dict(Registry(E.g, "LFL_sources"), CASRN, "LFL")
    IN IF ~MethodGiven(method)
       THEN IF Falsy(tabulated)
            THEN IF Hc.given THEN Done(E, Suzuki_LFL(Hc))
                 ELSE IF atoms.given THEN Done(E, Crowl_Louvar_LFL(atoms))
                 ELSE Done(E, tabulated)
            ELSE Done(E, tabulated)
       ELSE IF method = SUZUKI THEN Done(E, Suzuki_LFL(Hc))
       ELSE IF method = CROWLLOUVAR THEN Done(E, Crowl_Louvar_LFL(atoms))
       ELSE Done(E, retrieve_from_df_dict(Registry(E.g, "LFL_sources"), CASRN, "LFL",
                                          method))

\* variant: a named source without data falls back like the automatic lookup
LFL_named_falls_back(E0, Hc, atoms, CASRN, method) ==
    LET E == EnsureSafety(E0)
        tabulated ==
            IF ~MethodGiven(method)
            THEN retrieve_any_from_df_dict(Registry(E.g, "LFL_sources"), CASRN, "LFL")
            ELSE retrieve_from_df_dict(Registry(E.g, "LFL_sources"), CASRN, "LFL", method)
    IN IF method = SUZUKI THEN Done(E, Suzuki_LFL(Hc))
       ELSE IF method = CROWLLOUVAR THEN Done(E, Crowl_Louvar_LFL(atoms))
       ELSE IF Falsy(tabulated)
       THEN IF HcTruthy(Hc) THEN Done(E, Suzuki_LFL(Hc))
            ELSE IF AtomsTruthy(atoms) THEN Done(E, Crowl_Louvar_LFL(atoms))
            ELSE Done(E, tabulated)
       ELSE Done(E, tabulated)

LFL(E0, Hc, atoms, CASRN, method) ==
    LET E == EnsureSafety(E0)
        tabulated == retrieve_any_from_df_dict(Registry(E.g, "LFL_sources"), CASRN, "LFL")
    IN IF ~MethodGiven(method)
       THEN IF Falsy(tabulated)
            THEN IF HcTruthy(Hc) THEN Done(E, Suzuki_LFL(Hc))
                 ELSE IF AtomsTruthy(atoms) THEN Done(E, Crowl_Louvar_LFL(atoms))
                 ELSE Done(E, tabulated)
            ELSE Done(E, tabulated)
       ELSE IF method = SUZUKI THEN Done(E, Suzuki_LFL(Hc))
       ELSE IF method = CROWLLOUVAR THEN Done(E, Crowl_Louvar_LFL(atoms))
       ELSE Done(E, retrieve_from_df_dict(Registry(E.g, "LFL_sources"), CASRN, "LFL", method))

\* variant: Crowl-Louvar is appended ahead of the tabulated names and Suzuki
UFL_methods_crowl_first(E0, Hc, atoms, CASRN) ==
    LET E == EnsureSafety(E0)
        methods == list_available_methods_from_df_dict(Registry(E.g, "UFL_sources"),
                                                       CASRN, "UFL")
    IN Done(E, Return((IF atoms.given THEN <<CROWLLOUVAR>> ELSE <<>>)
                      \o methods \o (IF Hc.given THEN <<SUZUKI>> ELSE <<>>)))

UFL_methods(E0, Hc, atoms, CASRN) ==
    LET E == EnsureSafety(E0)
        methods == list_available_methods_from_df_dict(Registry(E.g, "UFL_sources"), CASRN, "UFL")
    IN Done(E, Return(methods \o (IF Hc.given THEN <<SUZUKI>> ELSE <<>>)
                              \o (IF atoms.given THEN <<CROWLLOUVAR>> ELSE <<>>)))

\* variant: the Crowl-Louvar name is not handled and goes to the registry
UFL_without_crowl_louvar(E0, Hc, atoms, CASRN, method) ==
    LET E == EnsureSafety(E0)
        tabulated == retrieve_any_from_df_dict(Registry(E.g, "UFL_sources"), CASRN, "UFL")
    IN IF ~MethodGiven(method)
       THEN IF Falsy(tabulated)
            THEN IF Hc.given THEN Done(E, Suzuki_UFL(Hc))
                 ELSE IF atoms.given THEN Done(E, Crowl_Louvar_UFL(atoms))
                 ELSE Done(E, tabulated)
            ELSE Done(E, tabulated)
       ELSE IF method = SUZUKI THEN Done(E, Suzuki_UFL(Hc))
       ELSE Done(E, retrieve_from_df_dict(Registry(E.g, "UFL_sources"), CASRN, "UFL",
                                          method))

UFL(E0, Hc, atoms, CASRN, method) ==
    LET E == EnsureSafety(E0)
        tabulated == retrieve_any_from_df_dict(Registry(E.g, "UFL_sources"), CASRN, "UFL")
    IN IF ~MethodGiven(method)
       THEN IF Falsy(tabulated)
            THEN IF Hc.given THEN Done(E, Suzuki_UFL(Hc))
                 ELSE IF atoms.given THEN Done(E, Crowl_Louvar_UFL(atoms))
                 ELSE Done(E, tabulated)
            ELSE Done(E, tabulated)
       ELSE IF method = SUZUKI THEN Done(E, Suzuki_UFL(Hc))
       ELSE IF method = CROWLLOUVAR THEN Done(E, Crowl_Louvar_UFL(atoms))
       ELSE Done(E, retrieve_from_df_dict(Registry(E.g, "UFL_sources"), CASRN, "UFL", method))

(***************************************************************************)
(* The inputs of the calls.                                                *)
(***************************************************************************)
Methods == {MethodNone, "", CCCBDB, MULLER, POLING, ONTARIO, IARC, NTP,
            IEC, NFPA, SERAT, SUZUKI, CROWLLOUVAR, "BADMETHOD"}

\* identifiers no table holds
Strangers == {EmptyId, <<"unknown", 1, 1, 1>>}
DipoleInputs == DipoleIds \cup Strangers
OntarioInputs == OntarioIds \cup Strangers
CarcInputs == CarcIds \cup Strangers
FireInputs == FireIds \cup Strangers
\* LFL and UFL read the IEC and NFPA tables only
LimitInputs == {i \in FireIds : i[4] = NoRow} \cup Strangers

(***************************************************************************)
(* The state machine: a caller makes one public call after another.        *)
(***************************************************************************)
NoCall == [fn |-> "", CASRN |-> EmptyId, method |-> MethodNone,
           get_methods |-> FALSE, Hc |-> HcNone, atoms |-> AtomsNone, name |-> ""]
NoOutcome == [kind |-> "pending"]

Threads == 1..MaxThreads
\* a thread that has not made its call yet
NotStarted == [fn |-> "", CASRN |-> EmptyId, stage |-> "idle", k |-> 0,
               out |-> NoOutcome]

\* both modules just imported on Python 3.7 or later: nothing is loaded yet
Init ==
    /\ dipole_data_loaded = FALSE
    /\ dipole_globals = [n \in DipoleNames |-> Unbound]
    /\ safety_data_loaded = FALSE
    /\ safety_globals = [n \in SafetyNames |-> Unbound]
    /\ dipole_loads = 0
    /\ safety_loads = 0
    /\ pc = "idle"
    /\ call = NoCall
    /\ outcome = NoOutcome
    /\ threads = [t \in Threads |-> NotStarted]

\* a call on chemicals.dipole completes, leaving the module as r.env
DipoleCall(c, r) ==
    /\ dipole_data_loaded' = r.env.loaded
    /\ dipole_globals' = r.env.g
    /\ dipole_loads' = r.env.loads
    /\ UNCHANGED <<safety_data_loaded, safety_globals, safety_loads, threads>>
    /\ pc' = "returned"
    /\ call' = c
    /\ outcome' = r.out

\* a call on chemicals.safety completes, leaving the module as r.env
SafetyCall(c, r) ==
    /\ safety_data_loaded' = r.env.loaded
    /\ safety_globals' = r.env.g
    /\ safety_loads' = r.env.loads
    /\ UNCHANGED <<dipole_data_loaded, dipole_globals, dipole_loads, threads>>
    /\ pc' = "returned"
    /\ call' = c
    /\ outcome' = r.out

Call_dipole_moment ==
    /\ pc = "idle"
    /\ \E CASRN \in DipoleInputs, get_methods \in BOOLEAN, method \in Methods :
          DipoleCall([NoCall EXCEPT !.fn = "dipole_moment", !.CASRN = CASRN,
                                    !.get_methods = get_methods, !.method = method],
                     dipole_moment(DipoleEnv, CASRN, get_methods, method))

Call_TWA_methods ==
    /\ pc = "idle"
    /\ \E CASRN \in OntarioInputs :
          SafetyCall([NoCall EXCEPT !.fn = "TWA_methods", !.CASRN = CASRN],
                     TWA_methods(SafetyEnv, CASRN))

Call_TWA ==
    /\ pc = "idle"
    /\ \E CASRN \in OntarioInputs, method \in Methods :
          SafetyCall([NoCall EXCEPT !.fn = "TWA", !.CASRN = CASRN,
                                    !.method = method],
                     TWA(SafetyEnv, CASRN, method))

Call_STEL_methods ==
    /\ pc = "idle"
    /\ \E CASRN \in OntarioInputs :
          SafetyCall([NoCall EXCEPT !.fn = "STEL_methods", !.CASRN = CASRN],
                     STEL_methods(SafetyEnv, CASRN))

Call_STEL ==
    /\ pc = "idle"
    /\ \E CASRN \in OntarioInputs, method \in Methods :
          SafetyCall([NoCall EXCEPT !.fn = "STEL", !.CASRN = CASRN,
                                    !.method = method],
                     STEL(SafetyEnv, CASRN, method))

Call_Ceiling_methods ==
    /\ pc = "idle"
    /\ \E CASRN \in OntarioInputs :
          SafetyCall([NoCall EXCEPT !.fn = "Ceiling_methods", !.CASRN = CASRN],
                     Ceiling_methods(SafetyEnv, CASRN))

Call_Ceiling ==
    /\ pc = "idle"
    /\ \E CASRN \in OntarioInputs, method \in Methods :
          SafetyCall([NoCall EXCEPT !.fn = "Ceiling", !.CASRN = CASRN,
                                    !.method = method],
                     Ceiling(SafetyEnv, CASRN, method))

Call_Skin_methods ==
    /\ pc = "idle"
    /\ \E CASRN \in OntarioInputs :
          SafetyCall([NoCall EXCEPT !.fn = "Skin_methods", !.CASRN = CASRN],
                     Skin_methods(SafetyEnv, CASRN))

Call_Skin ==
    /\ pc = "idle"
    /\ \E CASRN \in OntarioInputs, method \in Methods :
          SafetyCall([NoCall EXCEPT !.fn = "Skin", !.CASRN = CASRN,
                                    !.method = method],
                     Skin(SafetyEnv, CASRN, method))

Call_Carcinogen_methods ==
    /\ pc = "idle"
    /\ \E CASRN \in CarcInputs :
          SafetyCall([NoCall EXCEPT !.fn = "Carcinogen_methods", !.CASRN = CASRN],
                     Carcinogen_methods(SafetyEnv, CASRN))

Call_Carcinogen ==
    /\ pc = "idle"
    /\ \E CASRN \in CarcInputs, method \in Methods :
          SafetyCall([NoCall EXCEPT !.fn = "Carcinogen", !.CASRN = CASRN,
                                    !.method = method],
                     Carcinogen(SafetyEnv, CASRN, method))

Call_T_flash_methods ==
    /\ pc = "idle"
    /\ \E CASRN \in FireInputs :
          SafetyCall([NoCall EXCEPT !.fn = "T_flash_methods", !.CASRN = CASRN],
                     T_flash_methods(SafetyEnv, CASRN))

Call_T_flash ==
    /\ pc = "idle"
    /\ \E CASRN \in FireInputs, method \in Methods :
          SafetyCall([NoCall EXCEPT !.fn = "T_flash", !.CASRN = CASRN,
                                    !.method = method],
                     T_flash(SafetyEnv, CASRN, method))

Call_T_autoignition_methods ==
    /\ pc = "idle"
    /\ \E CASRN \in FireInputs :
          SafetyCall([NoCall EXCEPT !.fn = "T_autoignition_methods", !.CASRN = CASRN],
                     T_autoignition_methods(SafetyEnv, CASRN))

Call_T_autoignition ==
    /\ pc = "idle"
    /\ \E CASRN \in FireInputs, method \in Methods :
          SafetyCall([NoCall EXCEPT !.fn = "T_autoignition", !.CASRN = CASRN,
                                    !.method = method],
                     T_autoignition(SafetyEnv, CASRN, method))

Call_LFL_methods ==
    /\ pc = "idle"
    /\ \E Hc \in HcInputs, atoms \in AtomsInputs, CASRN \in LimitInputs :
          SafetyCall([NoCall EXCEPT !.fn = "LFL_methods", !.CASRN = CASRN,
                                    !.Hc = Hc, !.atoms = atoms],
                     LFL_methods(SafetyEnv, Hc, atoms, CASRN))

Call_LFL ==
    /\ pc = "idle"
    /\ \E Hc \in HcInputs, atoms \in AtomsInputs, CASRN \in LimitInputs, method \in Methods :
          SafetyCall([NoCall EXCEPT !.fn = "LFL", !.CASRN = CASRN,
                                    !.Hc = Hc, !.atoms = atoms, !.method = method],
                     LFL(SafetyEnv, Hc, atoms, CASRN, method))

Call_UFL_methods ==
    /\ pc = "idle"
    /\ \E Hc \in HcInputs, atoms \in AtomsInputs, CASRN \in LimitInputs :
          SafetyCall([NoCall EXCEPT !.fn = "UFL_methods", !.CASRN = CASRN,
                                    !.Hc = Hc, !.atoms = atoms],
                     UFL_methods(SafetyEnv, Hc, atoms, CASRN))

Call_UFL ==
    /\ pc = "idle"
    /\ \E Hc \in HcInputs, atoms \in AtomsInputs, CASRN \in LimitInputs, method \in Methods :
          SafetyCall([NoCall EXCEPT !.fn = "UFL", !.CASRN = CASRN,
                                    !.Hc = Hc, !.atoms = atoms, !.method = method],
                     UFL(SafetyEnv, Hc, atoms, CASRN, method))

\* the caller has taken the result and is ready to make its next call
\* the caller reads an exported table as an attribute of chemicals.safety
Read_safety_attribute ==
    /\ pc = "idle"
    /\ \E name \in ExportedTables :
          SafetyCall([NoCall EXCEPT !.fn = "__getattr__", !.name = name],
                     ModuleAttribute(SafetyEnv, name))

Continue ==
    /\ pc = "returned"
    /\ pc' = "idle"
    /\ call' = NoCall
    /\ outcome' = NoOutcome
    /\ UNCHANGED <<dipole_data_loaded, dipole_globals, dipole_loads, safety_data_loaded,
                   safety_globals, safety_loads, threads>>

Next ==
    \/ Call_dipole_moment
    \/ Call_TWA_methods
    \/ Call_TWA
    \/ Call_STEL_methods
    \/ Call_STEL
    \/ Call_Ceiling_methods
    \/ Call_Ceiling
    \/ Call_Skin_methods
    \/ Call_Skin
    \/ Call_Carcinogen_methods
    \/ Call_Carcinogen
    \/ Call_T_flash_methods
    \/ Call_T_flash
    \/ Call_T_autoignition_methods
    \/ Call_T_autoignition
    \/ Call_LFL_methods
    \/ Call_LFL
    \/ Call_UFL_methods
    \/ Call_UFL
    \/ Read_safety_attribute
    \/ Continue

Spec == Init /\ [][Next]_vars

(***************************************************************************)
(* Threads: each thread makes one first call, dipole_moment(CASRN) or      *)
(* T_flash(CASRN); the interpreter may switch threads between any two      *)
(* statements, so the guard, each assignment of the loading routine and    *)
(* the body of the function are steps of their own.                        *)
(***************************************************************************)
ThreadDipoleInputs == {<<"dipole", 1, NoRow, NoRow>>, <<"unknown", 1, 1, 1>>}
ThreadFireInputs == {<<"fire", NaN, 1, NoRow>>, <<"unknown", 1, 1, 1>>}

\* a module state in which the loading guard of the running call is behind it
PastGuard(E) == Env(TRUE, E.g, E.loads)

\* where a thread stands after statement k of a loading routine
AfterStep(th, steps) ==
    IF th.k < Len(steps) THEN [th EXCEPT !.k = th.k + 1]
    ELSE [th EXCEPT !.stage = "body", !.k = 0]

FrameDipole == UNCHANGED <<dipole_data_loaded, dipole_globals, dipole_loads>>
FrameSafety == UNCHANGED <<safety_data_loaded, safety_globals, safety_loads>>
FrameCaller == UNCHANGED <<pc, call, outcome>>

\* dipole_moment is entered: if not _dipole_data_loaded: _load_dipole_data()
Enter_dipole_moment ==
    \E t \in Threads, CASRN \in ThreadDipoleInputs :
        /\ threads[t].stage = "idle"
        /\ IF ~dipole_data_loaded
           THEN /\ threads' = [threads EXCEPT ![t] =
                       [fn |-> "dipole_moment", CASRN |-> CASRN, stage |-> "load",
                        k |-> 1, out |-> NoOutcome]]
                /\ dipole_loads' = Entered(dipole_loads)
           ELSE /\ threads' = [threads EXCEPT ![t] =
                       [fn |-> "dipole_moment", CASRN |-> CASRN, stage |-> "body",
                        k |-> 0, out |-> NoOutcome]]
                /\ UNCHANGED dipole_loads
        /\ UNCHANGED <<dipole_data_loaded, dipole_globals>>
        /\ FrameSafety
        /\ FrameCaller

\* T_flash is entered: if not _safety_data_loaded: _load_safety_data()
Enter_T_flash ==
    \E t \in Threads, CASRN \in ThreadFireInputs :
        /\ threads[t].stage = "idle"
        /\ IF ~safety_data_loaded
           THEN /\ threads' = [threads EXCEPT ![t] =
                       [fn |-> "T_flash", CASRN |-> CASRN, stage |-> "load",
                        k |-> 1, out |-> NoOutcome]]
                /\ safety_loads' = Entered(safety_loads)
           ELSE /\ threads' = [threads EXCEPT ![t] =
                       [fn |-> "T_flash", CASRN |-> CASRN, stage |-> "body",
                        k |-> 0, out |-> NoOutcome]]
                /\ UNCHANGED safety_loads
        /\ UNCHANGED <<safety_data_loaded, safety_globals>>
        /\ FrameDipole
        /\ FrameCaller

\* one assignment of _load_dipole_data
Step_load_dipole_data ==
    \E t \in Threads :
        /\ threads[t].stage = "load"
        /\ threads[t].fn = "dipole_moment"
        /\ LET name == load_dipole_data_steps[threads[t].k]
           IN dipole_globals' =
                  [dipole_globals EXCEPT ![name] = load_dipole_data(DipoleEnv).g[name]]
        /\ threads' = [threads EXCEPT ![t] = AfterStep(threads[t], load_dipole_data_steps)]
        /\ UNCHANGED <<dipole_data_loaded, dipole_loads>>
        /\ FrameSafety
        /\ FrameCaller

\* one assignment of _load_safety_data
Step_load_safety_data ==
    \E t \in Threads :
        /\ threads[t].stage = "load"
        /\ threads[t].fn = "T_flash"
        /\ LET name == load_safety_data_steps[threads[t].k]
           IN IF name = "_safety_data_loaded"
              THEN /\ safety_data_loaded' = TRUE
                   /\ UNCHANGED safety_globals
              ELSE /\ safety_globals' =
                        [safety_globals EXCEPT
                            ![name] = load_safety_data(SafetyEnv).g[name]]
                   /\ UNCHANGED safety_data_loaded
        /\ threads' = [threads EXCEPT ![t] = AfterStep(threads[t], load_safety_data_steps)]
        /\ UNCHANGED safety_loads
        /\ FrameDipole
        /\ FrameCaller

\* the rest of dipole_moment, after its guard
Body_dipole_moment ==
    \E t \in Threads :
        /\ threads[t].stage = "body"
        /\ threads[t].fn = "dipole_moment"
        /\ threads' = [threads EXCEPT ![t] =
               [@ EXCEPT !.stage = "done",
                         !.out = dipole_moment(PastGuard(DipoleEnv), threads[t].CASRN,
                                               FALSE, MethodNone).out]]
        /\ FrameDipole
        /\ FrameSafety
        /\ FrameCaller

\* the rest of T_flash, after its guard; an unassigned registry is a NameError
Body_T_flash ==
    \E t \in Threads :
        /\ threads[t].stage = "body"
        /\ threads[t].fn = "T_flash"
        /\ threads' = [threads EXCEPT ![t] =
               [@ EXCEPT !.stage = "done",
                         !.out = IF safety_globals["Tflash_sources"].bound
                                 THEN T_flash(PastGuard(SafetyEnv), threads[t].CASRN,
                                              MethodNone).out
                                 ELSE Raise("NameError")]]
        /\ FrameDipole
        /\ FrameSafety
        /\ FrameCaller

ThreadNext ==
    \/ Enter_dipole_moment
    \/ Enter_T_flash
    \/ Step_load_dipole_data
    \/ Step_load_safety_data
    \/ Body_dipole_moment
    \/ Body_T_flash

ThreadSpec == Init /\ [][ThreadNext]_vars

(***************************************************************************)
(* Vocabulary of the properties.                                           *)
(***************************************************************************)
Returned(fn) == pc = "returned" /\ call.fn = fn

LookupFns == {"dipole_moment", "TWA", "STEL", "Ceiling", "Skin", "Carcinogen",
              "T_flash", "T_autoignition", "LFL", "UFL"}
IsLookup == pc = "returned" /\ call.fn \in LookupFns
\* a lookup proper: dipole_moment answers the methods query when get_methods is set
IsValueLookup == IsLookup /\ ~call.get_methods

IsMethodsQuery ==
    /\ pc = "returned"
    /\ \/ call.fn \in {"TWA_methods", "STEL_methods", "Ceiling_methods", "Skin_methods",
                       "Carcinogen_methods", "T_flash_methods",
                       "T_autoignition_methods", "LFL_methods", "UFL_methods"}
       \/ call.fn = "dipole_moment" /\ call.get_methods

\* P_all_methods of the property a function belongs to
AllMethods(fn) ==
    CASE fn = "dipole_moment" -> dipole_methods
      [] fn \in {"TWA", "TWA_methods"} -> TWA_all_methods
      [] fn \in {"STEL", "STEL_methods"} -> STEL_all_methods
      [] fn \in {"Ceiling", "Ceiling_methods"} -> Ceiling_all_methods
      [] fn \in {"Skin", "Skin_methods"} -> Skin_all_methods
      [] fn \in {"Carcinogen", "Carcinogen_methods"} -> Carcinogen_all_methods
      [] fn \in {"T_flash", "T_flash_methods"} -> T_flash_all_methods
      [] fn \in {"T_autoignition", "T_autoignition_methods"} -> T_autoignition_all_methods
      [] fn \in {"LFL", "LFL_methods"} -> LFL_all_methods
      [] fn \in {"UFL", "UFL_methods"} -> UFL_all_methods

Estimators == {SUZUKI, CROWLLOUVAR}
\* the tabulated source names of a property, in priority order
TabulatedMethods(fn) == SelectSeq(AllMethods(fn), LAMBDA m : m \notin Estimators)

\* the file behind a source name of the registry-backed properties
FileOf(m) ==
    CASE m = CCCBDB -> "cccbdb.nist.gov Dipoles.csv"
      [] m = MULLER -> "Muller Supporting Info Dipoles.csv"
      [] m = POLING -> "Poling Dipole.csv"
      [] m = IEC -> "IS IEC 60079-20-1 2010.tsv"
      [] m = NFPA -> "NFPA 497 2008.tsv"
      [] m = SERAT -> "DIPPR T_flash Serat.csv"
      [] m = IARC -> "IARC Carcinogen Database.tsv"
      [] m = NTP -> "National Toxicology Program Carcinogens.tsv"

\* the column a registry-backed function reads
FieldOf(fn) ==
    CASE fn = "dipole_moment" -> "Dipole"
      [] fn \in {"T_flash", "T_flash_methods"} -> "T_flash"
      [] fn \in {"T_autoignition", "T_autoignition_methods"} -> "T_autoignition"
      [] fn \in {"LFL", "LFL_methods"} -> "LFL"
      [] fn \in {"UFL", "UFL_methods"} -> "UFL"

RegistryFns == {"dipole_moment", "T_flash", "T_autoignition", "LFL", "UFL"}

\* the bundled file of source m holds a non-null value of fn's field for i
FileHasData(fn, m, i) ==
    /\ i \in DOMAIN df_sources[FileOf(m)]
    /\ df_sources[FileOf(m)][i][FieldOf(fn)] # NaN
FileValue(fn, m, i) == Float(df_sources[FileOf(m)][i][FieldOf(fn)], 1)

\* the sources of fn's property that hold data for i, in priority order
SourcesWithData(fn, i) ==
    SelectSeq(TabulatedMethods(fn), LAMBDA m : FileHasData(fn, m, i))

NoAux == call.Hc = HcNone /\ call.atoms = AtomsNone

(***************************************************************************)
(* C1 (as stated): for every property function P, every identifier and     *)
(* every method name outside P's valid method names, calling P with that   *)
(* method fails with the invalid-method error and returns nothing.         *)
(***************************************************************************)
C1_AnyInvalidNameRaises ==
    (IsLookup /\ call.method # MethodNone
              /\ call.method \notin Range(AllMethods(call.fn)))
        => IsInvalidMethod(outcome)

(***************************************************************************)
(* C1 (amended): for every property function P, every identifier and every *)
(* non-empty method name outside P's valid method names, calling P for a   *)
(* value (dipole_moment with get_methods false) fails with the             *)
(* invalid-method error.                                                   *)
(***************************************************************************)
C1_InvalidMethodRaises ==
    (IsValueLookup /\ MethodGiven(call.method)
                   /\ call.method \notin Range(AllMethods(call.fn)))
        => IsInvalidMethod(outcome)

C1_Witness ==
    /\ Returned("TWA")
    /\ call.method = "BADMETHOD"
    /\ call.CASRN = <<"ontario", 1, NaN, 0>>
    /\ IsInvalidMethod(outcome)

(***************************************************************************)
(* C2: missing data is never an error: every lookup function, for every    *)
(* identifier and with no method or a registered source name as method,    *)
(* completes and returns a value or None.                                  *)
(***************************************************************************)
C2_MissingDataNeverRaises ==
    (IsLookup /\ (call.method = MethodNone
                  \/ call.method \in Range(TabulatedMethods(call.fn))))
        => outcome.kind \in {"value", "None"}

C2_Witness ==
    /\ Returned("T_flash")
    /\ call.method = IEC
    /\ call.CASRN = <<"unknown", 1, 1, 1>>
    /\ IsNone(outcome)

(***************************************************************************)
(* C3: with no method, dipole_moment, T_flash, T_autoignition and the      *)
(* tabulated lookup of LFL and UFL return the value of the first source,   *)
(* in the order CCCBDB, MULLER, POLING / IEC, NFPA, SERAT / IEC, NFPA,     *)
(* that holds non-null data for the identifier.                            *)
(***************************************************************************)
C3_FirstSourceWins ==
    (IsValueLookup /\ call.fn \in RegistryFns /\ call.method = MethodNone /\ NoAux
                   /\ SourcesWithData(call.fn, call.CASRN) # <<>>)
        => /\ IsValue(outcome)
           /\ outcome.val = FileValue(call.fn, SourcesWithData(call.fn, call.CASRN)[1],
                                      call.CASRN)

C3_Witness ==
    /\ Returned("T_flash")
    /\ call.method = MethodNone
    /\ call.CASRN = <<"fire", NaN, 1, 0>>
    /\ outcome = Return(Float(1, 1))

(***************************************************************************)
(* C4: with a registered tabulated source name as method, the lookup       *)
(* returns that source's value for the identifier, or None when that       *)
(* source has no data for it, whatever the other sources hold and whatever *)
(* Hc and atoms are supplied.                                              *)
(***************************************************************************)
C4_ExplicitSourceOnly ==
    (IsValueLookup /\ call.fn \in RegistryFns
                   /\ call.method \in Range(TabulatedMethods(call.fn)))
        => IF FileHasData(call.fn, call.method, call.CASRN)
           THEN /\ IsValue(outcome)
                /\ outcome.val = FileValue(call.fn, call.method, call.CASRN)
           ELSE IsNone(outcome)

C4_Witness ==
    /\ Returned("LFL")
    /\ call.method = NFPA
    /\ call.CASRN = <<"fire", 1, NaN, NoRow>>
    /\ call.Hc = HcOf(0 - MaxHc)
    /\ call.atoms = AtomsOf(MaxAtom, MaxAtom, KeyAbsent)
    /\ IsNone(outcome)

(***************************************************************************)
(* What a further call would answer in the current state.                  *)
(***************************************************************************)
\* P_methods(i) for the tabulated property of lookup function fn
MethodsNow(fn, i) ==
    CASE fn = "dipole_moment" -> dipole_moment(DipoleEnv, i, TRUE, MethodNone).out
      [] fn = "TWA" -> TWA_methods(SafetyEnv, i).out
      [] fn = "STEL" -> STEL_methods(SafetyEnv, i).out
      [] fn = "Ceiling" -> Ceiling_methods(SafetyEnv, i).out
      [] fn = "Skin" -> Skin_methods(SafetyEnv, i).out
      [] fn = "T_flash" -> T_flash_methods(SafetyEnv, i).out
      [] fn = "T_autoignition" -> T_autoignition_methods(SafetyEnv, i).out

\* P(i, method=m) for the tabulated property of lookup function fn
LookupNow(fn, i, m) ==
    CASE fn = "dipole_moment" -> dipole_moment(DipoleEnv, i, FALSE, m).out
      [] fn = "TWA" -> TWA(SafetyEnv, i, m).out
      [] fn = "STEL" -> STEL(SafetyEnv, i, m).out
      [] fn = "Ceiling" -> Ceiling(SafetyEnv, i, m).out
      [] fn = "Skin" -> Skin(SafetyEnv, i, m).out
      [] fn = "T_flash" -> T_flash(SafetyEnv, i, m).out
      [] fn = "T_autoignition" -> T_autoignition(SafetyEnv, i, m).out

\* the lookup function whose methods query the completed call is
LookupOfQuery ==
    CASE call.fn = "dipole_moment" -> "dipole_moment"
      [] call.fn = "TWA_methods" -> "TWA"
      [] call.fn = "STEL_methods" -> "STEL"
      [] call.fn = "Ceiling_methods" -> "Ceiling"
      [] call.fn = "Skin_methods" -> "Skin"
      [] call.fn = "Carcinogen_methods" -> "Carcinogen"
      [] call.fn = "T_flash_methods" -> "T_flash"
      [] call.fn = "T_autoignition_methods" -> "T_autoignition"
      [] call.fn = "LFL_methods" -> "LFL"
      [] call.fn = "UFL_methods" -> "UFL"

TabulatedFns == {"dipole_moment", "TWA", "STEL", "Ceiling", "Skin", "T_flash",
                 "T_autoignition"}

(***************************************************************************)
(* C5: first-hit consistency: for every tabulated property P and           *)
(* identifier i with P_methods(i) non-empty, P(i) with no method equals    *)
(* P(i, method=s) for s the first name of P_methods(i).                    *)
(***************************************************************************)
C5_FirstHitConsistency ==
    (IsValueLookup /\ call.fn \in TabulatedFns /\ call.method = MethodNone)
        => LET methods == MethodsNow(call.fn, call.CASRN)
           IN (IsValue(methods) /\ methods.val # <<>>)
                  => SameOutcome(outcome, LookupNow(call.fn, call.CASRN, methods.val[1]))

C5_Witness ==
    /\ Returned("T_flash")
    /\ call.method = MethodNone
    /\ call.CASRN = <<"fire", NoRow, NaN, 1>>
    /\ MethodsNow("T_flash", call.CASRN) = Return(<<SERAT>>)
    /\ outcome = Return(Float(1, 1))

(***************************************************************************)
(* C6 (as stated): for every tabulated property P (dipole moment, T_flash, *)
(* T_autoignition, TWA, STEL, Ceiling, Skin) and identifier i,             *)
(* P_methods(i) is the empty list if and only if P(i) with no method       *)
(* returns None.                                                           *)
(***************************************************************************)
C6_EmptyMethodsIffAbsent ==
    (IsMethodsQuery /\ LookupOfQuery \in TabulatedFns)
        => ((IsValue(outcome) /\ outcome.val = <<>>)
               <=> IsNone(LookupNow(LookupOfQuery, call.CASRN, MethodNone)))

(***************************************************************************)
(* C7 (as stated): for every property, Carcinogen included, the methods    *)
(* query returns a list whose tabulated source names are exactly the       *)
(* sources holding non-null data for the identifier, in priority order; it *)
(* is the empty list, not an error, for an identifier no source knows.     *)
(***************************************************************************)
\* source m of the property queried holds a non-null value for identifier i
HoldsData(fn, m, i) ==
    CASE fn \in RegistryFns -> FileHasData(fn, m, i)
      [] fn = "Carcinogen" -> i \in DOMAIN df_sources[FileOf(m)]
      [] fn = "Skin" -> i \in DOMAIN OntarioJson
      [] fn \in {"TWA", "STEL", "Ceiling"} ->
            /\ i \in DOMAIN OntarioJson
            /\ \/ OntarioJson[i][fn \o " (ppm)"] # NaN
               \/ OntarioJson[i][fn \o " (mg/m^3)"] # NaN

C7_MethodsListSourcesWithData ==
    IsMethodsQuery
        => /\ IsValue(outcome)
           /\ SelectSeq(outcome.val, LAMBDA m : m \notin Estimators)
                = SelectSeq(TabulatedMethods(LookupOfQuery),
                            LAMBDA m : HoldsData(LookupOfQuery, m, call.CASRN))

(***************************************************************************)
(* C8: LFL_methods and UFL_methods list 'Suzuki (1994)' exactly when Hc is *)
(* supplied and 'Crowl and Louvar (2001)' exactly when atoms is supplied,  *)
(* whatever the tables hold; the estimator names come after every          *)
(* tabulated source name, Suzuki before Crowl-Louvar.                      *)
(***************************************************************************)
C8_EstimatorNamesAppended ==
    (pc = "returned" /\ call.fn \in {"LFL_methods", "UFL_methods"})
        => LET est == (IF call.Hc.given THEN <<SUZUKI>> ELSE <<>>)
                      \o (IF call.atoms.given THEN <<CROWLLOUVAR>> ELSE <<>>)
               n == Len(outcome.val) - Len(est)
           IN /\ IsValue(outcome)
              /\ n >= 0
              /\ SubSeq(outcome.val, n + 1, Len(outcome.val)) = est
              /\ \A k \in 1..n : outcome.val[k] \notin Estimators

C8_Witness ==
    /\ Returned("LFL_methods")
    /\ call.Hc = HcOf(0)
    /\ call.atoms = AtomsOf(KeyAbsent, KeyAbsent, KeyAbsent)
    /\ call.CASRN = <<"fire", 1, 1, NoRow>>
    /\ outcome = Return(<<IEC, NFPA, SUZUKI, CROWLLOUVAR>>)

(***************************************************************************)
(* C9 (as stated): LFL and UFL with no method return the tabulated         *)
(* first-hit value, and use no estimator, whenever some tabulated source   *)
(* holds a non-null value for the identifier, a numeric zero included.     *)
(***************************************************************************)
C9_TabulatedBeforeEstimator ==
    (pc = "returned" /\ call.fn \in {"LFL", "UFL"} /\ call.method = MethodNone
                     /\ SourcesWithData(call.fn, call.CASRN) # <<>>)
        => /\ IsValue(outcome)
           /\ outcome.val = FileValue(call.fn, SourcesWithData(call.fn, call.CASRN)[1],
                                      call.CASRN)

(***************************************************************************)
(* C10: the list a methods query returns is a duplicate-free subsequence   *)
(* of the property's P_all_methods (dipole_methods for the dipole moment): *)
(* only names of that constant, in the constant's relative order.          *)
(***************************************************************************)
PositionIn(seq, x) == CHOOSE k \in 1..Len(seq) : seq[k] = x
IsSubsequenceOf(sub, seq) ==
    /\ \A k \in 1..Len(sub) : sub[k] \in Range(seq)
    /\ \A j, k \in 1..Len(sub) :
          j < k => PositionIn(seq, sub[j]) < PositionIn(seq, sub[k])
DuplicateFree(seq) == \A j, k \in 1..Len(seq) : j # k => seq[j] # seq[k]

C10_MethodsWithinAllMethods ==
    (IsMethodsQuery /\ IsValue(outcome))
        => /\ IsSubsequenceOf(outcome.val, AllMethods(call.fn))
           /\ DuplicateFree(outcome.val)

C10_Witness ==
    /\ Returned("UFL_methods")
    /\ call.Hc = HcOf(0 - MaxHc)
    /\ call.atoms = AtomsOf(MaxAtom, MaxAtom, MaxAtom)
    /\ call.CASRN = <<"fire", NaN, 0, NoRow>>
    /\ outcome = Return(<<NFPA, SUZUKI, CROWLLOUVAR>>)

(***************************************************************************)
(* C11: every name of P_all_methods is accepted by P as a method: calling  *)
(* P with it never fails with the invalid-method error, for every          *)
(* identifier, Hc and atoms; the keys of P's registry, followed by the     *)
(* estimator names P handles, are P_all_methods.                           *)
(***************************************************************************)
C11_AllMethodsAccepted ==
    /\ (IsLookup /\ call.method \in Range(AllMethods(call.fn)))
           => ~IsInvalidMethod(outcome)
    /\ dipole_globals["dipole_sources"].bound
           => Keys(dipole_globals["dipole_sources"].v) = dipole_methods
    /\ safety_data_loaded
           => /\ Keys(safety_globals["Tflash_sources"].v) = T_flash_all_methods
              /\ Keys(safety_globals["Tautoignition_sources"].v)
                    = T_autoignition_all_methods
              /\ Keys(safety_globals["LFL_sources"].v) \o <<SUZUKI, CROWLLOUVAR>>
                    = LFL_all_methods
              /\ Keys(safety_globals["UFL_sources"].v) \o <<SUZUKI, CROWLLOUVAR>>
                    = UFL_all_methods

C11_Witness ==
    /\ Returned("UFL")
    /\ call.method = CROWLLOUVAR
    /\ call.atoms = AtomsOf(MaxAtom, MaxAtom, KeyAbsent)
    /\ call.CASRN = <<"unknown", 1, 1, 1>>
    /\ outcome = Return(Float(350, 476*MaxAtom + 119*MaxAtom + 100))

\* no bundled file and no entry of the Ontario dictionary holds identifier i
InNoSource(i) ==
    /\ \A f \in DOMAIN df_sources : i \notin DOMAIN df_sources[f]
    /\ i \notin DOMAIN OntarioJson

(***************************************************************************)
(* C12 (as stated): an identifier present in zero sources yields None from *)
(* every property function called with no method and no auxiliary inputs,  *)
(* Carcinogen, LFL and UFL included.                                       *)
(***************************************************************************)
C12_UnknownIdYieldsNone ==
    (IsValueLookup /\ call.method = MethodNone /\ NoAux /\ InNoSource(call.CASRN))
        => IsNone(outcome)

(***************************************************************************)
(* C12 (amended): an identifier present in zero sources yields None from   *)
(* every property function called for a value with no method and no        *)
(* auxiliary inputs, LFL and UFL included, except Carcinogen, which        *)
(* returns the mapping of both of its sources to 'Unlisted'.               *)
(***************************************************************************)
C12_UnknownIdAbsent ==
    (IsValueLookup /\ call.method = MethodNone /\ NoAux /\ InNoSource(call.CASRN))
        => IF call.fn = "Carcinogen"
           THEN outcome = Return((IARC :> UNLISTED) @@ (NTP :> UNLISTED))
           ELSE IsNone(outcome)

C12_Witness ==
    /\ Returned("Skin")
    /\ call.method = MethodNone
    /\ call.CASRN = <<"unknown", 1, 1, 1>>
    /\ IsNone(outcome)

(***************************************************************************)
(* What a call answers when it is made with the modules in given states.   *)
(***************************************************************************)
Answer(c, D, S) ==
    CASE c.fn = "dipole_moment" -> dipole_moment(D, c.CASRN, c.get_methods, c.method)
      [] c.fn = "TWA_methods" -> TWA_methods(S, c.CASRN)
      [] c.fn = "TWA" -> TWA(S, c.CASRN, c.method)
      [] c.fn = "STEL_methods" -> STEL_methods(S, c.CASRN)
      [] c.fn = "STEL" -> STEL(S, c.CASRN, c.method)
      [] c.fn = "Ceiling_methods" -> Ceiling_methods(S, c.CASRN)
      [] c.fn = "Ceiling" -> Ceiling(S, c.CASRN, c.method)
      [] c.fn = "Skin_methods" -> Skin_methods(S, c.CASRN)
      [] c.fn = "Skin" -> Skin(S, c.CASRN, c.method)
      [] c.fn = "Carcinogen_methods" -> Carcinogen_methods(S, c.CASRN)
      [] c.fn = "Carcinogen" -> Carcinogen(S, c.CASRN, c.method)
      [] c.fn = "T_flash_methods" -> T_flash_methods(S, c.CASRN)
      [] c.fn = "T_flash" -> T_flash(S, c.CASRN, c.method)
      [] c.fn = "T_autoignition_methods" -> T_autoignition_methods(S, c.CASRN)
      [] c.fn = "T_autoignition" -> T_autoignition(S, c.CASRN, c.method)
      [] c.fn = "LFL_methods" -> LFL_methods(S, c.Hc, c.atoms, c.CASRN)
      [] c.fn = "LFL" -> LFL(S, c.Hc, c.atoms, c.CASRN, c.method)
      [] c.fn = "UFL_methods" -> UFL_methods(S, c.Hc, c.atoms, c.CASRN)
      [] c.fn = "UFL" -> UFL(S, c.Hc, c.atoms, c.CASRN, c.method)
      [] c.fn = "__getattr__" -> ModuleAttribute(S, c.name)

\* the modules as the import leaves them
ImportedDipole == Env(FALSE, [n \in DipoleNames |-> Unbound], 0)
ImportedSafety == Env(FALSE, [n \in SafetyNames |-> Unbound], 0)

(***************************************************************************)
(* C13 (as stated): idempotence: a lookup or methods function called twice *)
(* with identical inputs gives identical results, whatever calls are made  *)
(* in between: the result of a call, made after any sequence of calls, is  *)
(* the result the same call gives as the first call after import and the   *)
(* result it gives when repeated at once.                                  *)
(***************************************************************************)
C13_Idempotent ==
    (IsLookup \/ IsMethodsQuery)
        => /\ SameOutcome(outcome, Answer(call, ImportedDipole, ImportedSafety).out)
           /\ SameOutcome(outcome, Answer(call, DipoleEnv, SafetyEnv).out)

(***************************************************************************)
(* C14 (as stated): in a single thread, across any sequence of public      *)
(* calls on a module (dipole or safety), the module's loading routine runs *)
(* at most once: once it has run, the module's loaded flag is true, and    *)
(* every later call skips it.                                              *)
(***************************************************************************)
C14_LoadsAtMostOnce ==
    /\ dipole_loads <= 1
    /\ safety_loads <= 1
    /\ dipole_loads >= 1 => dipole_data_loaded
    /\ safety_loads >= 1 => safety_data_loaded

(***************************************************************************)
(* C15: once loaded, no lookup or methods call changes any table or any    *)
(* source registry: dipole_sources, Tflash_sources, Tautoignition_sources, *)
(* LFL_sources, UFL_sources, the Ontario dictionary and every table keep,  *)
(* across every call, the contents and the key order the load gave them.   *)
(***************************************************************************)
C15_TablesNeverChange ==
    [][/\ \A n \in DipoleNames :
              dipole_globals[n].bound => dipole_globals'[n] = dipole_globals[n]
       /\ \A n \in SafetyNames :
              safety_globals[n].bound => safety_globals'[n] = safety_globals[n]]_vars

C15_Witness ==
    /\ Returned("LFL_methods")
    /\ call.Hc = HcOf(0 - MaxHc)
    /\ call.CASRN = <<"fire", NaN, NoRow, NoRow>>
    /\ outcome = Return(<<SUZUKI>>)
    /\ safety_globals["LFL_sources"]
          = Bound(<<Source(IEC, "IEC_2010_data"), Source(NFPA, "NFPA_2008_data")>>)
    /\ dipole_loads >= 2
    /\ dipole_globals["dipole_sources"]
          = Bound(<<Source(CCCBDB, "dipole_data_CCDB"), Source(MULLER, "dipole_data_Muller"),
                    Source(POLING, "dipole_data_Poling")>>)

(***************************************************************************)
(* C16 (as stated): the invalid-method error raised by TWA, STEL, Ceiling, *)
(* Skin or Carcinogen carries a message that enumerates exactly the valid  *)
(* method names of that property, P_all_methods.                           *)
(***************************************************************************)
C16_ErrorListsAllMethods ==
    (IsLookup /\ call.fn \in {"TWA", "STEL", "Ceiling", "Skin", "Carcinogen"}
              /\ IsInvalidMethod(outcome))
        => outcome.allowed = AllMethods(call.fn)

(***************************************************************************)
(* C17: a missing row and a row whose field is null are treated alike: for *)
(* every property whose sources can hold a null field, the lookup result   *)
(* and the methods list for an identifier are those of the identifier that *)
(* has no row in every source where the first has a row with a null field. *)
(***************************************************************************)
\* the identifier without a row wherever i has a row whose fields are null
NullAsNoRow(i) ==
    IF i[1] \in {"dipole", "fire"}
    THEN [k \in 1..4 |-> IF k > 1 /\ i[k] = NaN THEN NoRow ELSE i[k]]
    ELSE IF i[1] = "ontario" /\ i[2] = NaN /\ i[3] = NaN
    THEN <<"unknown", 1, 1, 1>>
    ELSE i

\* the functions of the properties whose field can be null in a source
NullableFns == {"dipole_moment", "TWA_methods", "TWA", "STEL_methods", "STEL",
                "Ceiling_methods", "Ceiling", "T_flash_methods", "T_flash",
                "T_autoignition_methods", "T_autoignition", "LFL_methods", "LFL",
                "UFL_methods", "UFL"}

C17_NullFieldAsMissingRow ==
    (pc = "returned" /\ call.fn \in NullableFns)
        => SameOutcome(outcome,
                       Answer([call EXCEPT !.CASRN = NullAsNoRow(call.CASRN)],
                              DipoleEnv, SafetyEnv).out)

C17_Witness ==
    /\ Returned("TWA_methods")
    /\ call.CASRN = <<"ontario", NaN, NaN, 1>>
    /\ NullAsNoRow(call.CASRN) \notin DOMAIN OntarioJson
    /\ outcome = Return(<<>>)

\* the modules once their loading routines have run
LoadedDipole == load_dipole_data(ImportedDipole)
LoadedSafety == load_safety_data(ImportedSafety)

(***************************************************************************)
(* C18 (as stated): any public function may be the first call after        *)
(* import: a lookup or methods function (Skin_methods included) called     *)
(* while its module is not yet loaded constructs the tables itself and     *)
(* returns the result it returns once the tables are loaded.               *)
(***************************************************************************)
C18_AnyFunctionMayBeFirst ==
    [][(pc = "idle" /\ pc' = "returned" /\ call'.fn # "__getattr__")
          => IF call'.fn = "dipole_moment"
             THEN dipole_loads = 0
                     => /\ \A n \in DipoleNames : dipole_globals'[n].bound
                        /\ SameOutcome(outcome',
                                       Answer(call', LoadedDipole, LoadedSafety).out)
             ELSE safety_loads = 0
                     => /\ \A n \in SafetyNames : safety_globals'[n].bound
                        /\ SameOutcome(outcome',
                                       Answer(call', LoadedDipole, LoadedSafety).out)]_vars

(***************************************************************************)
(* C19 (as stated): when two threads concurrently make the first lookup    *)
(* call on a module, the module's loading routine runs exactly once: it is *)
(* never entered a second time, and it has run once when a call completes. *)
(***************************************************************************)
C19_ConcurrentFirstCallLoadsOnce ==
    /\ dipole_loads <= 1
    /\ safety_loads <= 1
    /\ \A t \in Threads :
          threads[t].stage = "done"
              => IF threads[t].fn = "dipole_moment" THEN dipole_loads = 1
                 ELSE safety_loads = 1

(***************************************************************************)
(* C20: in every reachable state of the safety module, between any two     *)
(* statements of its loading routine included, the loaded flag being true  *)
(* implies that every table, the four source registries (Tflash,           *)
(* Tautoignition, LFL, UFL) and the Ontario dictionary are constructed:    *)
(* the flag is set after the last of them is assigned.                     *)
(***************************************************************************)
C20_LoadedImpliesConstructed ==
    safety_data_loaded
        => \A n \in SafetyNames : safety_globals[n] = LoadedSafety.g[n]

C20_Witness ==
    /\ safety_data_loaded
    /\ threads[1].stage = "done"
    /\ threads[1].fn = "T_flash"
    /\ threads[1].CASRN = <<"fire", NaN, 1, NoRow>>
    /\ threads[1].out = Return(Float(1, 1))
    /\ threads[2].stage = "load"
    /\ threads[2].fn = "T_flash"

\* the lookup call that passes name m of a methods query's list as method
LookupWith(m) == [call EXCEPT !.fn = LookupOfQuery, !.method = m]

(***************************************************************************)
(* C21 (as stated): every method name listed by LFL_methods (UFL_methods)  *)
(* for given Hc, atoms and CASRN can be used: LFL (UFL) called with the    *)
(* same inputs and that name as method returns a non-absent value.         *)
(***************************************************************************)
C21_ListedMethodsUsable ==
    (pc = "returned" /\ call.fn \in {"LFL_methods", "UFL_methods"} /\ IsValue(outcome))
        => \A k \in 1..Len(outcome.val) :
              IsValue(Answer(LookupWith(outcome.val[k]), DipoleEnv, SafetyEnv).out)

\* the methods query that has the inputs of the completed LFL or UFL call
QueryOf(c) == [c EXCEPT !.fn = c.fn \o "_methods", !.method = MethodNone]

(***************************************************************************)
(* C22 (as stated): for LFL and UFL and all Hc, atoms and CASRN, the       *)
(* result with no method equals the result with method set to the first    *)
(* name of the corresponding methods list, and it is absent exactly when   *)
(* that list is empty.                                                     *)
(***************************************************************************)
C22_NoMethodIsFirstListed ==
    (pc = "returned" /\ call.fn \in {"LFL", "UFL"} /\ call.method = MethodNone)
        => LET methods == Answer(QueryOf(call), DipoleEnv, SafetyEnv).out.val
           IN /\ IsNone(outcome) <=> methods = <<>>
              /\ methods # <<>>
                    => SameOutcome(outcome,
                                   Answer([call EXCEPT !.method = methods[1]],
                                          DipoleEnv, SafetyEnv).out)

\* the auxiliary input that estimator m computes from
RequiredInput(c) == IF c.method = SUZUKI THEN c.Hc ELSE c.atoms

(***************************************************************************)
(* C23 (as stated): LFL and UFL called with an explicit estimator method   *)
(* complete without raising for every combination of supplied and omitted  *)
(* auxiliary inputs, and when the estimator's required input (Hc or atoms) *)
(* is not supplied the result is absent.                                   *)
(***************************************************************************)
C23_EstimatorNeverRaises ==
    (pc = "returned" /\ call.fn \in {"LFL", "UFL"} /\ call.method \in Estimators)
        => /\ ~IsRaise(outcome)
           /\ ~RequiredInput(call).given => IsNone(outcome)

\* the table that carcinogen source s is read from
CarcinogenTable(s) ==
    IF s = IARC THEN safety_globals["IARC_data"].v ELSE safety_globals["NTP_data"].v

(***************************************************************************)
(* C24: Carcinogen with no method returns a mapping with exactly the two   *)
(* keys IARC and NTP; for each source s the mapped status equals           *)
(* Carcinogen(CASRN, method=s), and a source that does not list the        *)
(* identifier contributes the status 'Unlisted'.                           *)
(***************************************************************************)
C24_MappingOfBothSources ==
    (Returned("Carcinogen") /\ call.method = MethodNone)
        => /\ IsValue(outcome)
           /\ DOMAIN outcome.val = {IARC, NTP}
           /\ \A s \in {IARC, NTP} :
                 /\ Answer([call EXCEPT !.method = s], DipoleEnv, SafetyEnv).out
                       = Return(outcome.val[s])
                 /\ call.CASRN \notin DOMAIN CarcinogenTable(s)
                       => outcome.val[s] = UNLISTED

C24_Witness ==
    /\ Returned("Carcinogen") /\ call.method = MethodNone
    /\ call.CASRN \in DOMAIN CarcinogenTable(IARC)
    /\ call.CASRN \notin DOMAIN CarcinogenTable(NTP)
    /\ outcome.val[NTP] = UNLISTED /\ outcome.val[IARC] # UNLISTED

\* the two concentration fields of the Ontario row read by TWA, STEL or Ceiling
LimitField(unit) ==
    safety_globals["Ontario_exposure_limits_dict"].v[call.CASRN][call.fn \o " (" \o unit \o ")"]

(***************************************************************************)
(* C25 (as stated): TWA, STEL and Ceiling return a (value, unit) pair      *)
(* whose unit names the field the value was read from: the ppm value with  *)
(* unit 'ppm' whenever the ppm field is present, otherwise the mg/m^3      *)
(* value with unit 'mg/m^3', and absent only when both fields are missing. *)
(***************************************************************************)
C25_UnitNamesFieldRead ==
    (pc = "returned" /\ call.fn \in {"TWA", "STEL", "Ceiling"}
       /\ ~IsInvalidMethod(outcome)
       /\ call.CASRN \in DOMAIN safety_globals["Ontario_exposure_limits_dict"].v)
        => IF LimitField("ppm") # NaN
           THEN outcome = Return(<<Float(LimitField("ppm"), 1), "ppm">>)
           ELSE IF LimitField("mg/m^3") # NaN
           THEN outcome = Return(<<Float(LimitField("mg/m^3"), 1), "mg/m^3">>)
           ELSE IsNone(outcome)

(***************************************************************************)
(* C26: in dipole_moment, get_methods takes precedence over method: when   *)
(* get_methods is true the function returns the list of available source   *)
(* names for the identifier and the method argument is ignored, so no      *)
(* invalid-method error is raised even for an unregistered method name.    *)
(***************************************************************************)
C26_GetMethodsIgnoresMethod ==
    (Returned("dipole_moment") /\ call.get_methods)
        => /\ outcome = Return(SourcesWithData("dipole_moment", call.CASRN))
           /\ outcome = Answer([call EXCEPT !.method = MethodNone],
                               DipoleEnv, SafetyEnv).out

C26_Witness ==
    /\ Returned("dipole_moment") /\ call.get_methods
    /\ call.method \notin Range(dipole_methods) \cup {MethodNone, ""}
    /\ IsValue(outcome) /\ Len(outcome.val) > 1

(***************************************************************************)
(* C27: for every property function, a method argument that is an empty    *)
(* string is handled exactly like an omitted method: the call has the      *)
(* outcome of the same call with method omitted (the automatic lookup in   *)
(* priority order) and no invalid-method error is raised.                  *)
(***************************************************************************)
C27_EmptyMethodIsOmitted ==
    (IsLookup /\ call.method = "")
        => /\ SameOutcome(outcome, Answer([call EXCEPT !.method = MethodNone],
                                          DipoleEnv, SafetyEnv).out)
           /\ ~IsInvalidMethod(outcome)

C27_Witness ==
    /\ Returned("T_autoignition") /\ call.method = ""
    /\ call.CASRN[2] = NoRow /\ call.CASRN[3] \in 0..MaxValue
    /\ outcome = Return(FileValue("T_autoignition", NFPA, call.CASRN))

(***************************************************************************)
(* C28 (as stated): every lazily loaded table name that the safety module  *)
(* exports in __all__ can be read as a module attribute before any lookup  *)
(* has been called: the access triggers the load and returns the table     *)
(* instead of raising an attribute error.                                  *)
(***************************************************************************)
C28_ExportedTablesReadable ==
    [][(pc = "idle" /\ call'.fn = "__getattr__" /\ call'.name \in ExportedTables
          /\ safety_loads = 0)
          => /\ safety_loads' = 1
             /\ outcome' = Return(LoadedSafety.g[call'.name].v)]_vars

====
